---- MODULE Spec2Model ----
(***************************************************************************)
(* Gasless USDC relayer: the admission gate (Relayer.relayTransaction),    *)
(* the record store (Database) and the settlement reconciliation loop      *)
(* (WorkflowProcessor), with the ledger node the loop talks to.            *)
(*                                                                         *)
(* Every `await` of the source is a suspension point: the part of a        *)
(* handler between two awaits is one atomic action (JavaScript runs it to  *)
(* completion), and the answer of the awaited ledger call is fixed by a    *)
(* separate ledger step, so that an answer can be stale when it is used.   *)
(***************************************************************************)
EXTENDS Integers, Sequences, FiniteSets, Bags, TLC

(***************************************************************************)
(* Bounds of the model.                                                    *)
(***************************************************************************)
\* The finalized block height of the ledger runs over 0..MaxHeight.
MaxHeight == 2
\* Number of reconciliation cycles (timer callbacks) that can be in flight.
MaxCycles == 2
\* The last finalized block height at which the blockhash "bh1" is valid.
BlockhashLastValid == 1
\* The candidates handed to the gate have 0..MaxInstructions instructions.
MaxInstructions == 3

(***************************************************************************)
(* Program constants.                                                      *)
(***************************************************************************)
TRANSFER_CHECKED_DISCRIMINATOR == 12
CREATE_IDEMPOTENT_ATA_DISCRIMINATOR == 1

USDC_MINT == "USDC"
TOKEN_PROGRAM_ID == "TokenProgram"
ASSOCIATED_TOKEN_PROGRAM_ID == "AtaProgram"

\* TransactionStatus (db.ts enum).
CREATED == "CREATED"
SUBMITTED == "SUBMITTED"
PROCESSED == "PROCESSED"
CONFIRMED == "CONFIRMED"
FINALIZED == "FINALIZED"
FAILED == "FAILED"
TransactionStatus == {CREATED, SUBMITTED, PROCESSED, CONFIRMED, FINALIZED, FAILED}

\* The lifecycle ordering ACCEPTED < SUBMITTED < PROCESSED < CONFIRMED < FINALIZED
\* (declaration order of the enum); FAILED stands outside of it.
Rank(s) ==
    CASE s = CREATED -> 0
      [] s = SUBMITTED -> 1
      [] s = PROCESSED -> 2
      [] s = CONFIRMED -> 3
      [] s = FINALIZED -> 4
      [] OTHER -> 5

(***************************************************************************)
(* Keys, accounts and signatures.                                          *)
(***************************************************************************)
RelayerKey == "relayer"
\* Wallets: A and B are registered users, X is not.
Keys == {RelayerKey, "A", "B", "X"}

\* getAssociatedTokenAddressSync(mint, owner): a derived address, one per
\* (mint, owner) pair.
getAssociatedTokenAddressSync(mint, owner) == <<"ata", mint, owner>>

NoSig == [by |-> "nobody", over |-> "nothing"]
\* An ed25519 signature is determined by the signing key and the message.
Sign(key, msg) == [by |-> key, over |-> msg]
\* Verification of signature entry e of a transaction with message msg.
VerifySig(e, msg) == e.signature = Sign(e.publicKey, msg)

(***************************************************************************)
(* Candidate transactions handed to relayTransaction.  msg stands for the  *)
(* serialized message bytes (what the signatures are over and what the     *)
(* ledger identifies the transaction by); signatures[1] is the fee payer's *)
(* entry, as in a compiled Solana transaction.                             *)
(***************************************************************************)
Blockhashes == {"bh1"}

\* keys: the accounts of the instruction in order; writable: those of them
\* that the instruction marks isWritable (the payer and the account created).
CreateAtaIx(recipient) ==
    [programId |-> ASSOCIATED_TOKEN_PROGRAM_ID,
     data |-> <<CREATE_IDEMPOTENT_ATA_DISCRIMINATOR>>,
     keys |-> <<RelayerKey, getAssociatedTokenAddressSync(USDC_MINT, recipient),
                recipient, USDC_MINT, "SystemProgram", TOKEN_PROGRAM_ID>>,
     writable |-> {<<"wallet", RelayerKey>>,
                   getAssociatedTokenAddressSync(USDC_MINT, recipient)}]

\* data: the discriminator byte, the amount (8 bytes little endian, kept here
\* as one number) and the decimals byte; len is the length in bytes.  The
\* source and the destination account are writable, the owner signs.
TransferIx(sender, recipient, amount) ==
    [programId |-> TOKEN_PROGRAM_ID,
     data |-> [amount |-> amount, len |-> 10, disc |-> TRANSFER_CHECKED_DISCRIMINATOR],
     keys |-> <<getAssociatedTokenAddressSync(USDC_MINT, sender), USDC_MINT,
                getAssociatedTokenAddressSync(USDC_MINT, recipient), sender>>,
     writable |-> {getAssociatedTokenAddressSync(USDC_MINT, sender),
                   getAssociatedTokenAddressSync(USDC_MINT, recipient)}]

\* The transaction the client builds (client.ts transfer): two instructions,
\* fee payer the relayer, signed by the sender only.
ClientTx(msg, sender, recipient, amount) ==
    [msg |-> msg,
     decodable |-> TRUE,
     feePayer |-> RelayerKey,
     recentBlockhash |-> "bh1",
     instructions |-> <<CreateAtaIx(recipient), TransferIx(sender, recipient, amount)>>,
     signatures |-> <<[signature |-> NoSig, publicKey |-> RelayerKey],
                      [signature |-> Sign(sender, msg), publicKey |-> sender]>>]

T1 == ClientTx("m1", "A", "B", 10)
T2 == ClientTx("m2", "B", "A", 20)
Msgs == {"m1", "m2"}

\* Candidates that the gate must turn away, each T1 changed in one place.
Undecodable == [T1 EXCEPT !.decodable = FALSE]
ThreeInstructions ==
    [T1 EXCEPT !.msg = "m1x3", !.instructions = Append(@, TransferIx("A", "B", 10))]
OtherMint ==
    [T1 EXCEPT !.msg = "m1mint", !.instructions[2].keys[2] = "OTHER"]
UnregisteredSender == ClientTx("mX", "X", "B", 10)
PreSigned ==
    [T1 EXCEPT !.signatures[1].signature = Sign(RelayerKey, "m1")]
\* The sender's slot holds bytes that are no signature of this message.
ForgedSenderSig ==
    [T1 EXCEPT !.msg = "m1f", !.signatures[2].signature = Sign("A", "other")]

\* The inputs relayTransaction is called with.
Candidates ==
    {T1, T2, Undecodable, ThreeInstructions, OtherMint, UnregisteredSender,
     PreSigned, ForgedSenderSig}

\* The inputs of the clients of SpecAdmit: the well-formed transfer, and one
\* input for each place where relayTransaction turns an input away (decoding,
\* validation, signature verification in serialize).
AdmitCandidates == {T1, Undecodable, ThreeInstructions, ForgedSenderSig}

\* What the candidates of the gate vary in: the number of instructions, the
\* fee payer, the mint named by the account-creation instruction, the mint
\* named by the transfer, the sender, and what the sender's signature slot
\* holds.
Counts == 0..MaxInstructions
FeePayers == {RelayerKey, "A"}
Mints == {USDC_MINT, "OTHER"}
Senders == {"A", "X"}
SenderSigs == {"signed", "none", "forged"}

\* The message bytes of a candidate: they are fixed by what the message says.
ShapedMsg(count, feePayer, ataMint, mint, sender) ==
    <<count, feePayer, ataMint, mint, sender>>

\* A candidate: a transfer of 10 to B, built as the client does except for
\* what the arguments say; the instructions after the first are transfers.
ShapedTx(count, feePayer, ataMint, mint, sender, senderSig) ==
    [msg |-> ShapedMsg(count, feePayer, ataMint, mint, sender),
     decodable |-> TRUE,
     feePayer |-> feePayer,
     recentBlockhash |-> "bh1",
     instructions |->
         [k \in 1..count |->
             IF k = 1
             THEN [CreateAtaIx("B") EXCEPT !.keys[4] = ataMint]
             ELSE [TransferIx(sender, "B", 10) EXCEPT !.keys[2] = mint]],
     signatures |->
         <<[signature |-> NoSig, publicKey |-> RelayerKey],
           [signature |->
                CASE senderSig = "signed" ->
                        Sign(sender, ShapedMsg(count, feePayer, ataMint, mint, sender))
                  [] senderSig = "forged" -> Sign(sender, <<"other">>)
                  [] OTHER -> NoSig,
            publicKey |-> sender]>>]

\* The transaction the client builds, as a candidate of the gate.
ClientShaped == ShapedTx(2, RelayerKey, USDC_MINT, USDC_MINT, "A", "signed")

\* What the candidates of the second family vary in: the wallet named by the
\* account creation, the owners whose holding accounts are the transfer's
\* source and destination and the account creation's target, the transfer's
\* authority, what the sender's and the relayer's signature slots hold, a
\* third party added to the transfer's accounts, and the amount.
Recipients == {"B", "X"}
SourceOwners == {"A", "X"}
DestOwners == {"B", "X"}
TargetOwners == {"B", "X"}
PartySenderSigs == {"signed", "none", "replayed"}
RelayerSigs == {"absent", "present"}
Extras == {"none", "signer", "writable"}
Amounts == {10, 20}
ThirdParty == "Z"

PartyMsg(recipient, sourceOwner, destOwner, targetOwner, sender, extra, amount) ==
    <<recipient, sourceOwner, destOwner, targetOwner, sender, extra, amount>>

\* The message of the transfer of 10 from A to B as the client builds it.
ClientPartyMsg == PartyMsg("B", "A", "B", "B", "A", "none", 10)

\* A candidate of the second family.  A third party that signs has its entry
\* in the signatures, after the fee payer's and the sender's; a "replayed"
\* sender signature is A's signature of the client's transfer of 10 to B.
PartyTx(recipient, sourceOwner, destOwner, targetOwner, sender, senderSig, relayerSig, extra, amount) ==
    LET msg == PartyMsg(recipient, sourceOwner, destOwner, targetOwner, sender,
                        extra, amount)
        source == getAssociatedTokenAddressSync(USDC_MINT, sourceOwner)
        dest == getAssociatedTokenAddressSync(USDC_MINT, destOwner)
        target == getAssociatedTokenAddressSync(USDC_MINT, targetOwner)
    IN  [msg |-> msg,
         decodable |-> TRUE,
         feePayer |-> RelayerKey,
         recentBlockhash |-> "bh1",
         instructions |->
             <<[programId |-> ASSOCIATED_TOKEN_PROGRAM_ID,
                data |-> <<CREATE_IDEMPOTENT_ATA_DISCRIMINATOR>>,
                keys |-> <<RelayerKey, target, recipient, USDC_MINT, "SystemProgram",
                           TOKEN_PROGRAM_ID>>,
                writable |-> {<<"wallet", RelayerKey>>, target}],
               [programId |-> TOKEN_PROGRAM_ID,
                data |-> [amount |-> amount, len |-> 10,
                          disc |-> TRANSFER_CHECKED_DISCRIMINATOR],
                keys |-> <<source, USDC_MINT, dest, sender>>
                            \o (IF extra = "none" THEN <<>> ELSE <<ThirdParty>>),
                writable |-> {source, dest}
                            \cup (IF extra = "writable"
                                  THEN {<<"wallet", ThirdParty>>} ELSE {})]>>,
         signatures |->
             <<[signature |->
                    IF relayerSig = "present"
                    THEN Sign(RelayerKey, <<"other">>) ELSE NoSig,
                publicKey |-> RelayerKey],
               [signature |->
                    CASE senderSig = "signed" -> Sign(sender, msg)
                      [] senderSig = "replayed" -> Sign("A", ClientPartyMsg)
                      [] OTHER -> NoSig,
                publicKey |-> sender]>>
             \o (IF extra = "signer"
                 THEN <<[signature |-> Sign(ThirdParty, msg), publicKey |-> ThirdParty]>>
                 ELSE <<>>)]

\* The client's transfer of `amount` from A to B, as a candidate of the family.
ClientParty(amount) ==
    PartyTx("B", "A", "B", "B", "A", "signed", "absent", "none", amount)

(***************************************************************************)
(* Database (db.ts).  The Map of transactions keeps insertion order, so it *)
(* is a sequence of records with distinct keys; the records are shared     *)
(* objects, which a holder reads through the key.                          *)
(***************************************************************************)
RegisteredUsers == {"A", "B"}

\* Mutant of isUserRegistered: every key counts as registered.
isUserRegisteredAny(users, publicKey) == TRUE

isUserRegistered(users, publicKey) == publicKey \in users

isCompliant(publicKey) == TRUE

\* Mutant of HasTransaction: the lookup misses a stored key.
HasTransactionMisses(transactions, signature) == FALSE


HasTransaction(transactions, signature) ==
    \E i \in 1..Len(transactions) : transactions[i].signature = signature

\* getTransaction: the record stored under the key (callers test presence first).
getTransaction(transactions, signature) ==
    LET i == CHOOSE j \in 1..Len(transactions) : transactions[j].signature = signature
    IN  transactions[i]

\* Map.set: a new key is appended, an existing key keeps its place and gets
\* the new value.
MapSet(transactions, record) ==
    IF \E i \in 1..Len(transactions) : transactions[i].signature = record.signature
    THEN [i \in 1..Len(transactions) |->
             IF transactions[i].signature = record.signature
             THEN record
             ELSE transactions[i]]
    ELSE Append(transactions, record)

addTransaction(transactions, record) ==
    IF ~HasTransaction(transactions, record.signature)
    THEN MapSet(transactions, record)
    ELSE transactions

\* Mutant of updateTransactionStatus: the record is replaced by one that
\* starts over with lastValidBlockHeight 0.
updateTransactionStatusReplacing(transactions, signature, status) ==
    [i \in 1..Len(transactions) |->
        IF transactions[i].signature = signature
        THEN [transactions[i] EXCEPT !.status = status, !.lastValidBlockHeight = 0]
        ELSE transactions[i]]

updateTransactionStatus(transactions, signature, status) ==
    [i \in 1..Len(transactions) |->
        IF transactions[i].signature = signature
        THEN [transactions[i] EXCEPT !.status = status]
        ELSE transactions[i]]

IsTerminal(status) == status \in {FINALIZED, FAILED}

RECURSIVE NonTerminalKeys(_)
NonTerminalKeys(transactions) ==
    IF transactions = <<>> THEN <<>>
    ELSE IF IsTerminal(Head(transactions).status)
         THEN NonTerminalKeys(Tail(transactions))
         ELSE <<Head(transactions).signature>> \o NonTerminalKeys(Tail(transactions))

\* Mutant of getNonTerminalTransactions: every record, as getAllTransactions.
getAllTransactions(transactions) ==
    [i \in 1..Len(transactions) |-> transactions[i].signature]

\* getNonTerminalTransactions: the records (by key) not FINALIZED or FAILED,
\* in insertion order.
getNonTerminalTransactions(transactions) == NonTerminalKeys(transactions)

(***************************************************************************)
(* Relayer (relayer.ts): validation.                                       *)
(***************************************************************************)
Invalid(error) ==
    [recipient |-> "", sender |-> "", amount |-> 0, error |-> error, valid |-> FALSE,
     targetAta |-> <<>>]

\* Mutant of NotUsdc: the mint is not looked at.
NotUsdcUnchecked(mint) == FALSE

\* !mint.equals(USDC_MINT)
NotUsdc(mint) == mint # USDC_MINT

\* Mutant of NotDerivedFor: the account is not compared with the derived one.
NotDerivedForUnchecked(account, owner) == FALSE

\* !account.equals(getAssociatedTokenAddressSync(USDC_MINT, owner))
NotDerivedFor(account, owner) ==
    account # getAssociatedTokenAddressSync(USDC_MINT, owner)

validateCreateAtaInstruction(instruction) ==
    IF instruction.programId # ASSOCIATED_TOKEN_PROGRAM_ID
    THEN Invalid("First instruction must be from Associated Token Program")
    ELSE IF Len(instruction.data) # 1
            \/ instruction.data[1] # CREATE_IDEMPOTENT_ATA_DISCRIMINATOR
    THEN Invalid("First instruction must be create idempotent ATA")
    ELSE IF Len(instruction.keys) < 6
    THEN Invalid("Invalid create ATA instruction accounts")
    ELSE IF NotUsdc(instruction.keys[4])
    THEN Invalid("ATA must be for USDC token")
    ELSE [Invalid("") EXCEPT !.valid = TRUE, !.targetAta = instruction.keys[2]]

getRecipientFromCreateAta(instruction) == instruction.keys[3]

validateTransferInstruction(instruction, recipient) ==
    IF instruction.programId # TOKEN_PROGRAM_ID
    THEN Invalid("Second instruction must be from Token Program")
    ELSE IF instruction.data.len < 9
            \/ instruction.data.disc # TRANSFER_CHECKED_DISCRIMINATOR
    THEN Invalid("Second instruction must be TransferChecked")
    ELSE IF Len(instruction.keys) < 4
    THEN Invalid("Invalid TransferChecked instruction accounts")
    ELSE LET sourceAta == instruction.keys[1]
             mint == instruction.keys[2]
             destAta == instruction.keys[3]
             sourceOwner == instruction.keys[4]
         IN  IF NotUsdc(mint)
             THEN Invalid("Transfer must be USDC token")
             ELSE IF NotDerivedFor(sourceAta, sourceOwner)
             THEN Invalid("Source ATA does not match sender's USDC ATA")
             ELSE IF NotDerivedFor(destAta, recipient)
             THEN Invalid("Destination ATA does not match recipient's USDC ATA")
             ELSE [Invalid("") EXCEPT !.valid = TRUE, !.sender = sourceOwner,
                                      !.recipient = recipient,
                                      !.amount = instruction.data.amount]

\* signatures.find(sig => sig.publicKey.equals(key))?.signature
FindSignature(signatures, key) ==
    IF \E i \in 1..Len(signatures) : signatures[i].publicKey = key
    THEN LET i == CHOOSE j \in 1..Len(signatures) :
                    /\ signatures[j].publicKey = key
                    /\ \A k \in 1..(j - 1) : signatures[k].publicKey # key
         IN  signatures[i].signature
    ELSE NoSig

\* Mutant of WrongInstructionCount: two instructions or more are let through.
WrongInstructionCountLax(instructions) == Len(instructions) < 2

\* instructions.length !== 2
WrongInstructionCount(instructions) == Len(instructions) # 2

validateTransaction(transaction, users) ==
    LET instructions == transaction.instructions IN
    IF WrongInstructionCount(instructions)
    THEN Invalid("Expected 2 instructions")
    ELSE IF transaction.feePayer # RelayerKey
    THEN Invalid("Fee payer must be the relayer")
    ELSE LET createAtaResult == validateCreateAtaInstruction(instructions[1]) IN
    IF ~createAtaResult.valid
    THEN createAtaResult
    ELSE LET recipient == getRecipientFromCreateAta(instructions[1])
             transferResult == validateTransferInstruction(instructions[2], recipient)
         IN
    IF ~transferResult.valid
    THEN transferResult
    ELSE IF NotDerivedFor(createAtaResult.targetAta, transferResult.recipient)
    THEN Invalid("ATA creation must target recipient's USDC ATA")
    ELSE IF ~isUserRegistered(users, transferResult.sender)
    THEN Invalid("Sender is not a registered user")
    ELSE IF ~isUserRegistered(users, transferResult.recipient)
    THEN Invalid("Recipient is not a registered user")
    ELSE IF ~isCompliant(transferResult.sender)
    THEN Invalid("Sender is not compliant")
    ELSE IF ~isCompliant(transferResult.recipient)
    THEN Invalid("Recipient is not compliant")
    ELSE IF FindSignature(transaction.signatures, transferResult.sender) = NoSig
    THEN Invalid("Sender signature is missing")
    ELSE IF FindSignature(transaction.signatures, RelayerKey) # NoSig
    THEN Invalid("Relayer signature should not be present yet")
    ELSE IF \E i \in 1..Len(transaction.signatures) :
                transaction.signatures[i].publicKey
                    \notin {RelayerKey, transferResult.sender}
    THEN Invalid("Unexpected signer")
    ELSE transferResult

(***************************************************************************)
(* Relayer (relayer.ts): relayTransaction after validation.                *)
(***************************************************************************)
Result(success, transactionId, error) ==
    [error |-> error, success |-> success, transactionId |-> transactionId]

\* transaction.partialSign(this.keypair): the relayer's entry gets its signature.
partialSign(transaction, key) ==
    [transaction EXCEPT !.signatures =
        [i \in 1..Len(transaction.signatures) |->
            IF transaction.signatures[i].publicKey = key
            THEN [transaction.signatures[i] EXCEPT
                      !.signature = Sign(key, transaction.msg)]
            ELSE transaction.signatures[i]]]

\* Mutant of SerializeThrows: serialize is called without verification.
SerializeNeverThrows(transaction) == FALSE

\* transaction.serialize() requires every signature and verifies it; it throws
\* "Signature verification failed" otherwise.
SerializeThrows(transaction) ==
    \E i \in 1..Len(transaction.signatures) :
        ~VerifySig(transaction.signatures[i], transaction.msg)

\* Is a record stored under this id already (relayTransaction's existingTx)?
ExistingTx(transactions, transactionId) == HasTransaction(transactions, transactionId)

\* Mutant of ExistingResult: a retry of a stored transaction is refused.
ExistingResultRefused(transactionId) == Result(FALSE, NoSig, "Transaction already exists")

\* What relayTransaction returns for a transaction that is stored already.
ExistingResult(transactionId) == Result(TRUE, transactionId, "")

\* Lines 53-98 of relayTransaction, run without suspension once the awaited
\* validation result is in: the pair <<result returned, store afterwards>>.
RelayCommit(transactions, transaction, lastValidBlockHeight, validationResult) ==
    IF ~validationResult.valid
    THEN <<Result(FALSE, NoSig, validationResult.error), transactions>>
    ELSE LET signed == partialSign(transaction, RelayerKey) IN
    IF signed.signatures[1].signature = NoSig
    THEN <<Result(FALSE, NoSig, "Failed to get transaction signature"), transactions>>
    ELSE IF Len(signed.signatures) < 2 \/ signed.signatures[2].signature = NoSig
    THEN <<Result(FALSE, NoSig, "Sender signature not found"), transactions>>
    ELSE LET transactionId == signed.signatures[2].signature IN
    IF ExistingTx(transactions, transactionId)
    THEN <<ExistingResult(transactionId), transactions>>
    ELSE IF SerializeThrows(signed)
    THEN <<Result(FALSE, NoSig, "Signature verification failed"), transactions>>
    ELSE <<Result(TRUE, transactionId, ""),
           addTransaction(transactions,
               [signature |-> transactionId,
                recipient |-> validationResult.recipient,
                sender |-> validationResult.sender,
                amount |-> validationResult.amount,
                status |-> CREATED,
                lastValidBlockHeight |-> lastValidBlockHeight,
                serializedTransaction |-> signed])>>

\* Mutant of getTransactionStatus: the status the record was stored with.
getTransactionStatusAsStored(transactions, transactionId) ==
    IF ~HasTransaction(transactions, transactionId)
    THEN [status |-> "null", error |-> "Transaction not found"]
    ELSE [status |-> CREATED, error |-> ""]

\* getTransactionStatus: the status of the record stored under the id, or
\* null with an error.
getTransactionStatus(transactions, transactionId) ==
    IF ~HasTransaction(transactions, transactionId)
    THEN [status |-> "null", error |-> "Transaction not found"]
    ELSE [status |-> getTransaction(transactions, transactionId).status, error |-> ""]

(***************************************************************************)
(* Client (client.ts): what poll does with the answer to a status query.   *)
(***************************************************************************)
maxAttempts == 60

\* Mutant of AttemptsExhausted: the loop goes on at the last attempt.
AttemptsExhaustedAfter(attempts) == attempts > maxAttempts

AttemptsExhausted(attempts) == attempts >= maxAttempts

\* The branch poll takes on the answer of its attempt: the line it logs when
\* it returns, or "again" when it sets the next timeout.
PollOutcome(status, attempts) ==
    IF status = "null" THEN "not found"
    ELSE IF status = CONFIRMED \/ status = FINALIZED THEN "succeeded"
    ELSE IF status = FAILED THEN "failed"
    ELSE IF AttemptsExhausted(attempts) THEN "stopped"
    ELSE "again"

\* The transfer of 10 the client builds for a recipient that is not registered.
ToUnregistered == ClientTx("m1X", "A", "X", 10)

(***************************************************************************)
(* State.                                                                  *)
(***************************************************************************)
VARIABLES
    transactions,   \* db.transactions, in insertion order
    calls,          \* relayTransaction calls: suspended at the await, or returned
    running,        \* WorkflowProcessor.running
    intervalId,     \* WorkflowProcessor.intervalId is set
    timers,         \* number of interval timers that are active
    cycles,         \* the processTransactions callbacks in flight (a bag)
    height,         \* ledger: finalized block height
    chain,          \* ledger: status of each message's transaction
    sent,           \* ledger: the transaction was broadcast to the node
    receipts,       \* the receipts sendReceipt has put out, in order
    statusResult,   \* the last answer of getTransactionStatus, with the id asked
    polling         \* the client's pollTransactionStatus loop, once it is started

vars == <<transactions, calls, running, intervalId, timers, cycles, height, chain, sent,
         receipts, statusResult, polling>>

Callers == {"c1", "c2"}

\* The lastValidBlockHeight values a client passes: the blockhash's true one,
\* and one that the finalized height of the model does not reach.
LvbhInputs == {BlockhashLastValid, MaxHeight + 1}

NoCall == <<>>
IdleCycle == [txs |-> <<>>, pc |-> "idle", resp |-> "none", blockHeight |-> 0]

Init ==
    /\ transactions = <<>>
    /\ calls = [c \in Callers |-> NoCall]
    /\ running = FALSE
    /\ intervalId = FALSE
    /\ timers = 0
    /\ cycles = EmptyBag
    /\ height = 0
    /\ chain = [m \in Msgs |-> "none"]
    /\ sent = [m \in Msgs |-> FALSE]
    /\ receipts = <<>>
    /\ statusResult = <<>>
    /\ polling = <<>>

LedgerVars == <<height, chain, sent>>
LoopVars == <<running, intervalId, timers, cycles>>

(***************************************************************************)
(* Admission.                                                              *)
(***************************************************************************)
\* relayTransaction up to `await this.validateTransaction(transaction)`.  An
\* undecodable input throws in Transaction.from and returns from the catch
\* block at once.
relayTransactionCall(c, transaction, lastValidBlockHeight) ==
    /\ IF calls[c] = NoCall THEN TRUE ELSE calls[c][1].phase = "returned"
    /\ calls' = [calls EXCEPT ![c] =
          <<[transaction |-> transaction,
             lastValidBlockHeight |-> lastValidBlockHeight,
             validationResult |->
                 IF transaction.decodable
                 THEN validateTransaction(transaction, RegisteredUsers)
                 ELSE Invalid("decode"),
             phase |-> IF transaction.decodable THEN "validated" ELSE "returned",
             result |->
                 IF transaction.decodable
                 THEN Result(FALSE, NoSig, "pending")
                 ELSE Result(FALSE, NoSig, "decode")]>>]
    /\ UNCHANGED <<transactions, LoopVars, LedgerVars, receipts, statusResult, polling>>

\* relayTransaction from the await to its return.
relayTransactionResume(c) ==
    /\ IF calls[c] = NoCall THEN FALSE ELSE calls[c][1].phase = "validated"
    /\ LET call == calls[c][1]
           out == RelayCommit(transactions, call.transaction,
                              call.lastValidBlockHeight, call.validationResult)
       IN  /\ transactions' = out[2]
           /\ calls' = [calls EXCEPT ![c] =
                 <<[call EXCEPT !.phase = "returned", !.result = out[1]]>>]
    /\ UNCHANGED <<LoopVars, LedgerVars, receipts, statusResult, polling>>

\* getTransactionStatus is called: a client asks for the status of transactionId.
getTransactionStatusCall(transactionId) ==
    /\ statusResult' = <<transactionId, getTransactionStatus(transactions, transactionId)>>
    /\ UNCHANGED <<transactions, calls, LoopVars, LedgerVars, receipts, polling>>

\* Client.transfer up to `await this.relayer.relayTransaction(...)`: the
\* client builds its transfer and hands it to the relayer.
transfer(c, transaction) ==
    /\ calls[c] = NoCall
    /\ relayTransactionCall(c, transaction, BlockhashLastValid)

\* Client.transfer after the relayer's answer: on success
\* pollTransactionStatus sets attempts to 0 and the first timeout.
pollTransactionStatus(c) ==
    /\ polling = <<>>
    /\ IF calls[c] = NoCall THEN FALSE
       ELSE calls[c][1].phase = "returned" /\ calls[c][1].result.success
    /\ polling' = <<[transactionId |-> calls[c][1].result.transactionId,
                     attempts |-> 0, outcome |-> "again"]>>
    /\ UNCHANGED <<transactions, calls, LoopVars, LedgerVars, receipts, statusResult>>

\* The timeout fires: poll counts the attempt, asks the relayer for the
\* status and returns, or sets the next timeout.
poll ==
    /\ IF polling = <<>> THEN FALSE ELSE polling[1].outcome = "again"
    /\ LET attempts == polling[1].attempts + 1
           answer == getTransactionStatus(transactions, polling[1].transactionId)
       IN  /\ statusResult' = <<polling[1].transactionId, answer>>
           /\ polling' = <<[polling[1] EXCEPT
                               !.attempts = attempts,
                               !.outcome = PollOutcome(answer.status, attempts)]>>
    /\ UNCHANGED <<transactions, calls, LoopVars, LedgerVars, receipts>>

(***************************************************************************)
(* The ledger node (Connection).  A transaction is identified by its       *)
(* message; it can be included only after a broadcast and only while its   *)
(* blockhash is valid, and its commitment level only grows.  Every call    *)
(* can also fail (RPC error, timeout): answer "error".                     *)
(***************************************************************************)
LastValidBlockHeight(blockhash) == BlockhashLastValid

BlockhashValidNow(blockhash) == height <= LastValidBlockHeight(blockhash)

\* getSignatureStatuses without history search looks in the recent status
\* cache only: a transaction finalized long ago may be reported as null.
StatusAnswers(m) ==
    {"error"} \cup
    (CASE chain[m] = "none" -> {"null"}
       [] chain[m] = "finalized" -> {"finalized", "null"}
       [] OTHER -> {chain[m]})

\* getSignatureStatuses with searchTransactionHistory: true.
HistoryAnswers(m) ==
    {"error", IF chain[m] = "none" THEN "null" ELSE chain[m]}

\* isBlockhashValid(blockhash, {commitment: "finalized"}).
BlockhashAnswers(blockhash) ==
    {"error", IF BlockhashValidNow(blockhash) THEN "true" ELSE "false"}

\* getTransaction(signature, {commitment: "confirmed"}).
GetTransactionAnswers(m) ==
    {"error", IF chain[m] \in {"confirmed", "finalized"} THEN "found" ELSE "null"}

\* sendRawTransaction with preflight: refused when the transaction is on the
\* ledger already or its blockhash is no longer valid.
SendAnswers(m, blockhash) ==
    {"error",
     IF chain[m] # "none" THEN "alreadyProcessed"
     ELSE IF BlockhashValidNow(blockhash) THEN "ok" ELSE "error"}

\* The finalized chain grows by one block.
LedgerTick ==
    /\ height < MaxHeight
    /\ height' = height + 1
    /\ UNCHANGED <<transactions, calls, LoopVars, chain, sent, receipts, statusResult, polling>>

\* A broadcast transaction is included in a block (while its blockhash is
\* valid), then confirmed, then finalized.
LedgerProgress(m, blockhash) ==
    /\ sent[m]
    /\ \/ chain[m] = "none" /\ BlockhashValidNow(blockhash)
          /\ chain' = [chain EXCEPT ![m] = "processed"]
       \/ chain[m] = "processed" /\ chain' = [chain EXCEPT ![m] = "confirmed"]
       \/ chain[m] = "confirmed" /\ chain' = [chain EXCEPT ![m] = "finalized"]
    /\ UNCHANGED <<transactions, calls, LoopVars, height, sent, receipts, statusResult, polling>>

(***************************************************************************)
(* WorkflowProcessor (workflow.ts).                                        *)
(***************************************************************************)
Record(id) == getTransaction(transactions, id)

\* transaction.signature of the stored transaction: the fee payer's signature,
\* which is the transaction's id on the ledger.
OnChainSignature(record) == record.serializedTransaction.signatures[1].signature

MsgOf(record) == record.serializedTransaction.msg

\* Mutant of start: the running flag is not looked at.
startUnguarded ==
    /\ running' = TRUE
    /\ intervalId' = TRUE
    /\ timers' = timers + 1
    /\ UNCHANGED <<transactions, calls, cycles, LedgerVars, receipts, statusResult, polling>>

\* start(intervalMs)
start ==
    /\ ~running
    /\ running' = TRUE
    /\ intervalId' = TRUE
    /\ timers' = timers + 1
    /\ UNCHANGED <<transactions, calls, cycles, LedgerVars, receipts, statusResult, polling>>

\* start() while running: logs and returns.
startWhileRunning ==
    /\ running
    /\ UNCHANGED vars

\* stop()
stop ==
    /\ timers' = IF intervalId THEN timers - 1 ELSE timers
    /\ intervalId' = FALSE
    /\ running' = FALSE
    /\ UNCHANGED <<transactions, calls, cycles, LedgerVars, receipts, statusResult, polling>>

\* processTransaction up to its first await: a record whose stored transaction
\* has no signature is skipped (logged), the others are asked about.
RECURSIVE SkipUnsigned(_, _)
SkipUnsigned(txs, list) ==
    IF list = <<>> THEN <<>>
    ELSE IF OnChainSignature(getTransaction(txs, Head(list))) = NoSig
         THEN SkipUnsigned(txs, Tail(list))
         ELSE list

\* The loop of processTransactions over the records `list`: the state of the
\* callback when it suspends next, or when it has run off the list.
ProcessFrom(txs, list) ==
    LET rest == SkipUnsigned(txs, list) IN
    IF rest = <<>> THEN IdleCycle
    ELSE [txs |-> rest, pc |-> "getSignatureStatuses", resp |-> "pending",
          blockHeight |-> 0]

\* The callback moves on to the record after the current one.
NextRecord(txs, cycle) == ProcessFrom(txs, Tail(cycle.txs))

\* The callback awaits another ledger call for the current record.
Await(cycle, call) == [cycle EXCEPT !.pc = call, !.resp = "pending", !.blockHeight = 0]

\* The callback in state `cycle` goes on to state `next`; a callback that has
\* run off its list is gone.
Continue(cycle, next) ==
    (cycles (-) SetToBag({cycle}))
        (+) (IF next = IdleCycle THEN EmptyBag ELSE SetToBag({next}))

\* Mutant of processTransactions: entered also when no interval timer is set.
processTransactionsUntimed(limit) ==
    /\ BagCardinality(cycles) < limit
    /\ cycles' = Continue(IdleCycle,
                     ProcessFrom(transactions, getNonTerminalTransactions(transactions)))
    /\ UNCHANGED <<transactions, calls, running, intervalId, timers, LedgerVars,
                 receipts, statusResult, polling>>

\* The interval timer fires: processTransactions is entered.  Nothing keeps
\* the timer from firing while earlier callbacks are still suspended.
processTransactions(limit) ==
    /\ timers > 0
    /\ BagCardinality(cycles) < limit
    /\ cycles' = Continue(IdleCycle,
                     ProcessFrom(transactions, getNonTerminalTransactions(transactions)))
    /\ UNCHANGED <<transactions, calls, running, intervalId, timers, LedgerVars,
                 receipts, statusResult, polling>>

\* The node answers the call a callback is waiting on.
LedgerRespond(cycle) ==
    /\ BagIn(cycle, cycles)
    /\ cycle.resp = "pending"
    /\ LET record == Record(Head(cycle.txs))
           m == MsgOf(record)
           blockhash == record.serializedTransaction.recentBlockhash
           answers ==
               CASE cycle.pc = "getSignatureStatuses" -> StatusAnswers(m)
                 [] cycle.pc = "isBlockhashValid" -> BlockhashAnswers(blockhash)
                 [] cycle.pc = "sendRawTransaction" -> SendAnswers(m, blockhash)
                 [] cycle.pc = "getEpochInfo" -> {"error", "epochInfo"}
                 [] cycle.pc = "getSignatureStatusesHistory" -> HistoryAnswers(m)
                 [] cycle.pc = "getTransaction" -> GetTransactionAnswers(m)
       IN  \E a \in answers :
             /\ cycles' = Continue(cycle,
                   [cycle EXCEPT !.resp = a,
                                 !.blockHeight = IF a = "epochInfo" THEN height ELSE 0])
             /\ sent' = IF cycle.pc = "sendRawTransaction" /\ a = "ok"
                        THEN [sent EXCEPT ![m] = TRUE]
                        ELSE sent
    /\ UNCHANGED <<transactions, calls, running, intervalId, timers, height, chain,
                 receipts, statusResult, polling>>

Answered(cycle, call) ==
    /\ BagIn(cycle, cycles)
    /\ cycle.pc = call
    /\ cycle.resp # "pending"

\* handleExistingStatus: the status to write for a record with status `status`
\* when the ledger reports confirmationStatus, or the same status for no write.
handleExistingStatus(status, confirmationStatus) ==
    CASE confirmationStatus = "processed" ->
            IF status # PROCESSED THEN PROCESSED ELSE status
      [] confirmationStatus = "confirmed" ->
            IF status # CONFIRMED /\ status # FINALIZED THEN CONFIRMED ELSE status
      [] confirmationStatus = "finalized" ->
            IF status # FINALIZED THEN FINALIZED ELSE status
      [] OTHER -> status

\* Mutant of ReceiptDue: a receipt goes out at 'confirmed' already.
ReceiptDueAtConfirmed(status, confirmationStatus) ==
    confirmationStatus \in {"confirmed", "finalized"} /\ status # FINALIZED

\* Mutant of ReceiptDue: a receipt goes out with every 'finalized' answer.
ReceiptDueAlways(status, confirmationStatus) == confirmationStatus = "finalized"

\* handleExistingStatus, case "finalized": sendReceipt is called when the
\* record is not FINALIZED yet.
ReceiptDue(status, confirmationStatus) ==
    confirmationStatus = "finalized" /\ status # FINALIZED

\* sendReceipt(tx): puts out the record's sender, recipient, amount and status.
sendReceipt(log, tx) == Append(log, tx)

\* db.updateTransactionStatus unless the status stays as it is.
WriteStatus(txs, id, status) ==
    IF getTransaction(txs, id).status = status
    THEN txs
    ELSE updateTransactionStatus(txs, id, status)

\* processTransaction from `await getSignatureStatuses` on.  An error leaves
\* processTransaction and is caught (logged) in processTransactions.
processTransaction(cycle) ==
    LET id == Head(cycle.txs) IN
    /\ Answered(cycle, "getSignatureStatuses")
    /\ IF cycle.resp = "error"
       THEN /\ cycles' = Continue(cycle, NextRecord(transactions, cycle))
            /\ UNCHANGED <<transactions, receipts>>
       ELSE IF cycle.resp = "null"
       THEN /\ cycles' = Continue(cycle, Await(cycle, "isBlockhashValid"))
            /\ UNCHANGED <<transactions, receipts>>
       ELSE /\ transactions' =
                  WriteStatus(transactions, id,
                              handleExistingStatus(Record(id).status, cycle.resp))
            /\ receipts' =
                  IF ReceiptDue(Record(id).status, cycle.resp)
                  THEN sendReceipt(receipts, getTransaction(transactions', id))
                  ELSE receipts
            /\ cycles' = Continue(cycle, NextRecord(transactions', cycle))
    /\ UNCHANGED <<calls, running, intervalId, timers, LedgerVars, statusResult,
                 polling>>

\* handleNullStatus from `await isBlockhashValid` on.
handleNullStatus(cycle) ==
    /\ Answered(cycle, "isBlockhashValid")
    /\ cycles' = Continue(cycle,
          CASE cycle.resp = "error" -> NextRecord(transactions, cycle)
            [] cycle.resp = "true" -> Await(cycle, "sendRawTransaction")
            [] OTHER -> Await(cycle, "getEpochInfo"))
    /\ UNCHANGED <<transactions, calls, running, intervalId, timers, LedgerVars,
                 receipts, statusResult, polling>>

\* Mutant of StatusAfterSend: SUBMITTED is written after every broadcast.
StatusAfterSendAlways(status) == SUBMITTED

\* After a successful broadcast a CREATED record becomes SUBMITTED.
StatusAfterSend(status) == IF status = CREATED THEN SUBMITTED ELSE status

\* handleNullStatus from `await sendRawTransaction` on: the catch block logs
\* every error of the broadcast.
handleNullStatusSent(cycle) ==
    LET id == Head(cycle.txs) IN
    /\ Answered(cycle, "sendRawTransaction")
    /\ transactions' =
          IF cycle.resp = "ok"
          THEN WriteStatus(transactions, id, StatusAfterSend(Record(id).status))
          ELSE transactions
    /\ cycles' = Continue(cycle, NextRecord(transactions', cycle))
    /\ UNCHANGED <<calls, running, intervalId, timers, LedgerVars, receipts, statusResult, polling>>

\* Mutant of ChainBehind: the finalized height is not compared.
ChainBehindNever(currentBlockHeight, lastValidBlockHeight) == FALSE

\* The finalized chain has not caught up with the record's lastValidBlockHeight.
ChainBehind(currentBlockHeight, lastValidBlockHeight) ==
    currentBlockHeight < lastValidBlockHeight

\* handleExpiredBlockhash from `await getEpochInfo` on.
handleExpiredBlockhash(cycle) ==
    LET id == Head(cycle.txs) IN
    /\ Answered(cycle, "getEpochInfo")
    /\ cycles' = Continue(cycle,
          IF cycle.resp = "error"
             \/ ChainBehind(cycle.blockHeight, Record(id).lastValidBlockHeight)
          THEN NextRecord(transactions, cycle)
          ELSE Await(cycle, "getSignatureStatusesHistory"))
    /\ UNCHANGED <<transactions, calls, running, intervalId, timers, LedgerVars,
                 receipts, statusResult, polling>>

\* Mutant of FoundInHistory: the answer of the history search is not looked at.
FoundInHistoryIgnored(answer) == FALSE

\* statusesWithHistory.value[0] !== null
FoundInHistory(answer) == answer # "null"

\* handleExpiredBlockhash from `await getSignatureStatuses(.., history)` on.
handleExpiredBlockhashHistory(cycle) ==
    /\ Answered(cycle, "getSignatureStatusesHistory")
    /\ cycles' = Continue(cycle,
          IF cycle.resp = "error" \/ FoundInHistory(cycle.resp)
          THEN NextRecord(transactions, cycle)
          ELSE Await(cycle, "getTransaction"))
    /\ UNCHANGED <<transactions, calls, running, intervalId, timers, LedgerVars,
                 receipts, statusResult, polling>>

\* The try/catch around getTransaction: the record is marked FAILED unless the
\* call returns a transaction; an error of the call is ignored.
MarkFailed(answer) == answer # "found"

\* handleExpiredBlockhash from `await getTransaction` on.
handleExpiredBlockhashGetTransaction(cycle) ==
    LET id == Head(cycle.txs) IN
    /\ Answered(cycle, "getTransaction")
    /\ transactions' =
          IF MarkFailed(cycle.resp)
          THEN updateTransactionStatus(transactions, id, FAILED)
          ELSE transactions
    /\ cycles' = Continue(cycle, NextRecord(transactions', cycle))
    /\ UNCHANGED <<calls, running, intervalId, timers, LedgerVars, receipts, statusResult, polling>>

(***************************************************************************)
(* Specifications.                                                         *)
(***************************************************************************)
Loop(cycle) ==
    \/ LedgerRespond(cycle)
    \/ processTransaction(cycle)
    \/ handleNullStatus(cycle)
    \/ handleNullStatusSent(cycle)
    \/ handleExpiredBlockhash(cycle)
    \/ handleExpiredBlockhashHistory(cycle)
    \/ handleExpiredBlockhashGetTransaction(cycle)

Ledger ==
    \/ LedgerTick
    \/ \E m \in Msgs, b \in Blockhashes : LedgerProgress(m, b)

\* One client submitting the well-formed transfer, with reconciliation
\* callbacks that can overlap.
Next ==
    \/ \E l \in LvbhInputs : relayTransactionCall("c1", T1, l)
    \/ relayTransactionResume("c1")
    \/ start
    \/ startWhileRunning
    \/ stop
    \/ processTransactions(MaxCycles)
    \/ \E cycle \in BagToSet(cycles) : Loop(cycle)
    \/ Ledger

Spec == Init /\ [][Next]_vars

\* A client submitting and retrying its transfer (with any lastValidBlockHeight)
\* while a second caller submits the same transfer or ill-formed inputs, their
\* calls interleaving at the await; one reconciliation callback at a time.
NextAdmit ==
    \/ \E l \in LvbhInputs : relayTransactionCall("c1", T1, l)
    \/ \E t \in AdmitCandidates, l \in LvbhInputs : relayTransactionCall("c2", t, l)
    \/ \E c \in Callers : relayTransactionResume(c)
    \/ start
    \/ startWhileRunning
    \/ stop
    \/ processTransactions(1)
    \/ \E cycle \in BagToSet(cycles) : Loop(cycle)
    \/ Ledger

SpecAdmit == Init /\ [][NextAdmit]_vars

(***************************************************************************)
(* Properties.                                                             *)
(***************************************************************************)
Indices == 1..Len(transactions)

\* The callback in state `cycle` takes a step (it leaves that state).
Acted(cycle) == CopiesIn(cycle, cycles') < CopiesIn(cycle, cycles)

\* The callback `cycle` is processing the record stored at index i.
Processing(cycle, i) == Head(cycle.txs) = transactions[i].signature

Landed(record) == chain[MsgOf(record)] # "none"

CanStillLand(record) ==
    BlockhashValidNow(record.serializedTransaction.recentBlockhash)

\* C1: false-failure safety.  A record is never FAILED while its transaction
\* is on the ledger or can still be included in it.
C1_FalseFailureSafety ==
    \A i \in Indices :
        transactions[i].status = FAILED
            => ~Landed(transactions[i]) /\ ~CanStillLand(transactions[i])

\* C1 witness: a callback whose plain status query said null and whose marker
\* was reported expired finds the landed transaction in the history search
\* (and so will not mark it FAILED).
C1_Witness ==
    \E cycle \in BagToSet(cycles) :
        /\ cycle.pc = "getSignatureStatusesHistory"
        /\ cycle.resp \in {"processed", "confirmed", "finalized"}
        /\ \E i \in Indices : Processing(cycle, i) /\ Landed(transactions[i])

\* C2: FAILED is written only in a step that holds a definite "none" from the
\* full-record lookup, after the marker was seen expired, the finalized height
\* was seen not behind the record's lastValidBlockHeight and the status queries
\* said none.
C2_FailedOnlyAfterAllChecks ==
    [][\A i \in Indices :
          (transactions[i].status # FAILED /\ transactions'[i].status = FAILED)
              => \E cycle \in BagToSet(cycles) :
                    /\ Acted(cycle)
                    /\ Processing(cycle, i)
                    /\ cycle.pc = "getTransaction"
                    /\ cycle.resp = "null"
                    /\ ~CanStillLand(transactions[i])
                    /\ height >= transactions[i].lastValidBlockHeight
                    /\ ~Landed(transactions[i])]_vars

\* C3: a callback that resumes from a ledger call that failed (error, timeout)
\* leaves every record as it is.
C3_TransientErrorsKeepState ==
    [][\A cycle \in BagToSet(cycles) :
          (cycle.resp = "error" /\ Acted(cycle)) => transactions' = transactions]_vars

\* C4: the status of a record never decreases in the order
\* CREATED < SUBMITTED < PROCESSED < CONFIRMED < FINALIZED.
C4_MonotonicLifecycle ==
    [][\A i \in Indices :
          (transactions[i].status # FAILED /\ transactions'[i].status # FAILED)
              => Rank(transactions'[i].status) >= Rank(transactions[i].status)]_vars

\* C5: a record that is FAILED or FINALIZED keeps its status in every step.
C5_TerminalAbsorbing ==
    [][\A i \in Indices :
          IsTerminal(transactions[i].status)
              => transactions'[i].status = transactions[i].status]_vars

\* C6: no two callbacks in flight are processing the same record.
C6_NoConcurrentCycles ==
    \A i \in Indices :
        BagCardinality(
            [cycle \in {x \in BagToSet(cycles) : Processing(x, i)} |->
                CopiesIn(cycle, cycles)]) <= 1

Returned(c) == IF calls[c] = NoCall THEN FALSE ELSE calls[c][1].phase = "returned"

\* A transaction as the client builds it: it passes validation and carries
\* the sender's true signature.
WellFormed(transaction) ==
    /\ transaction.decodable
    /\ validateTransaction(transaction, RegisteredUsers).valid
    /\ transaction.signatures[2].signature
          = Sign(transaction.signatures[2].publicKey, transaction.msg)

\* C7: every call that admits a well-formed transaction returns success with
\* the sender's signature as id, and one record is stored under that id.
C7_IdempotentAdmission ==
    \A c \in Callers :
        (Returned(c) /\ WellFormed(calls[c][1].transaction))
            => LET call == calls[c][1]
                   id == call.transaction.signatures[2].signature
               IN  /\ call.result.success
                   /\ call.result.transactionId = id
                   /\ Cardinality({i \in Indices : transactions[i].signature = id}) = 1

\* C7 witness: two calls for the same transaction have returned while one
\* record is stored, the later caller having been told the same id.
C7_Witness ==
    /\ \A c \in Callers :
          /\ Returned(c)
          /\ calls[c][1].transaction = T1
          /\ calls[c][1].result = Result(TRUE, Sign("A", "m1"), "")
    /\ Len(transactions) = 1

\* C8: no step of relayTransaction changes a record that is stored.
C8_ReadmissionKeepsRecord ==
    [][calls' # calls
          => /\ Len(transactions') >= Len(transactions)
             /\ \A i \in Indices : transactions'[i] = transactions[i]]_vars

\* C8 witness: a retry that names another lastValidBlockHeight has returned
\* success for a record that has left CREATED and reached a terminal status.
C8_Witness ==
    \E c \in Callers, i \in Indices :
        /\ Returned(c)
        /\ calls[c][1].result.success
        /\ calls[c][1].result.transactionId = transactions[i].signature
        /\ calls[c][1].lastValidBlockHeight # transactions[i].lastValidBlockHeight
        /\ IsTerminal(transactions[i].status)

\* C9: a call that returns a rejection leaves the store as it is, and a call
\* that changes the store appends one record, in status CREATED, for a
\* transaction that passed validation and whose signatures all verify.
C9_RejectionsNeverStored ==
    [][\A c \in Callers :
          calls'[c] # calls[c]
              => LET after == calls'[c][1] IN
                 /\ (after.phase = "returned" /\ ~after.result.success)
                        => transactions' = transactions
                 /\ transactions' # transactions
                        => /\ after.phase = "returned"
                           /\ after.result.success
                           /\ after.transaction.decodable
                           /\ validateTransaction(after.transaction, RegisteredUsers).valid
                           /\ Len(transactions') = Len(transactions) + 1
                           /\ LET new == transactions'[Len(transactions')] IN
                              /\ new.status = CREATED
                              /\ new.signature = after.result.transactionId
                              /\ \A k \in 1..Len(new.serializedTransaction.signatures) :
                                    VerifySig(new.serializedTransaction.signatures[k],
                                              after.transaction.msg)]_vars

\* C9 witness: one call has been rejected after validation or verification
\* while the store holds the record another call created.
C9_Witness ==
    /\ Len(transactions) = 1
    /\ transactions[1].status = CREATED
    /\ \E c \in Callers :
          /\ Returned(c)
          /\ calls[c][1].transaction \in {ThreeInstructions, ForgedSenderSig}
          /\ ~calls[c][1].result.success

\* C10: a callback that resumes with a finalized height below the record's
\* lastValidBlockHeight changes no record, makes no further ledger call for
\* the record and goes on to the next record.
C10_ConservativeGuard ==
    [][\A cycle \in BagToSet(cycles) :
          (/\ cycle.pc = "getEpochInfo"
           /\ cycle.resp = "epochInfo"
           /\ cycle.blockHeight < Record(Head(cycle.txs)).lastValidBlockHeight
           /\ Acted(cycle))
              => /\ transactions' = transactions
                 /\ sent' = sent
                 /\ cycles' = Continue(cycle, NextRecord(transactions, cycle))]_vars

\* C10 witness: the marker was reported expired and the finalized height
\* reported is below the record's lastValidBlockHeight.
C10_Witness ==
    \E cycle \in BagToSet(cycles) :
        /\ cycle.pc = "getEpochInfo"
        /\ cycle.resp = "epochInfo"
        /\ cycle.blockHeight < Record(Head(cycle.txs)).lastValidBlockHeight
        /\ ~BlockhashValidNow(Record(Head(cycle.txs)).serializedTransaction.recentBlockhash)

\* C11: the FAILED write happens once: no callback resumes for a record that
\* is FAILED already, so none queries the ledger for it or writes it again.
C11_FailedRecordedOnce ==
    [][\A cycle \in BagToSet(cycles) :
          Acted(cycle) => Record(Head(cycle.txs)).status # FAILED]_vars

\* The number of receipts put out for a record.
ReceiptsFor(record) ==
    Cardinality({k \in 1..Len(receipts) : receipts[k].signature = record.signature})

\* C12: at most one receipt has been put out for a record, exactly one for a
\* record that is FINALIZED.
C12_ReceiptExactlyOnce ==
    \A i \in Indices :
        /\ ReceiptsFor(transactions[i]) <= 1
        /\ transactions[i].status = FINALIZED => ReceiptsFor(transactions[i]) = 1

\* C13: a record that was set to FINALIZED (its receipt has been put out) is
\* left as it is by everything that follows: it is FINALIZED, with one receipt.
C13_FinalizedLeftUnchanged ==
    \A i \in Indices :
        ReceiptsFor(transactions[i]) >= 1
            => /\ transactions[i].status = FINALIZED
               /\ ReceiptsFor(transactions[i]) = 1

\* C14: a callback that resumes from a broadcast that went through, or that
\* was answered with the 'already processed' error, for a record that is
\* CREATED leaves the record SUBMITTED.
C14_BroadcastAdvancesAccepted ==
    [][\A cycle \in BagToSet(cycles) :
          (/\ Acted(cycle)
           /\ cycle.pc = "sendRawTransaction"
           /\ cycle.resp \in {"ok", "alreadyProcessed"}
           /\ Record(Head(cycle.txs)).status = CREATED)
              => getTransaction(transactions', Head(cycle.txs)).status = SUBMITTED]_vars

(***************************************************************************)
(* Liveness: one admitted transfer, one reconciliation callback at a time, *)
(* a timer that is started and never stopped.                              *)
(***************************************************************************)
LedgerCalls ==
    {"getSignatureStatuses", "isBlockhashValid", "sendRawTransaction",
     "getEpochInfo", "getSignatureStatusesHistory", "getTransaction"}

\* The node answers the pending `call` of a callback, and not with an error.
LedgerAnswers(call) ==
    \E cycle \in BagToSet(cycles) :
        /\ cycle.pc = call
        /\ LedgerRespond(cycle)
        /\ \E next \in BagToSet(cycles') :
              next.pc = call /\ next.resp \notin {"pending", "error"}

\* A suspended callback whose call was answered is resumed.
Resume ==
    \E cycle \in BagToSet(cycles) :
        \/ processTransaction(cycle)
        \/ handleNullStatus(cycle)
        \/ handleNullStatusSent(cycle)
        \/ handleExpiredBlockhash(cycle)
        \/ handleExpiredBlockhashHistory(cycle)
        \/ handleExpiredBlockhashGetTransaction(cycle)

NextLive ==
    \/ relayTransactionCall("c1", T1, BlockhashLastValid)
    \/ relayTransactionResume("c1")
    \/ start
    \/ processTransactions(1)
    \/ \E cycle \in BagToSet(cycles) : Loop(cycle)
    \/ Ledger

\* The timer is started and keeps firing, every ledger call returns, a
\* callback whose call has returned is resumed, every kind of ledger call is
\* answered without an error again and again, the finalized chain keeps
\* growing (up to MaxHeight), and a transaction that can go on to the next
\* commitment level does.
Fairness ==
    /\ WF_vars(start)
    /\ WF_vars(processTransactions(1))
    /\ WF_vars(\E cycle \in BagToSet(cycles) : LedgerRespond(cycle))
    /\ WF_vars(Resume)
    /\ WF_vars(relayTransactionResume("c1"))
    /\ WF_vars(LedgerTick)
    /\ WF_vars(\E m \in Msgs, b \in Blockhashes : LedgerProgress(m, b))
    /\ \A call \in LedgerCalls : SF_vars(LedgerAnswers(call))

SpecLive == Init /\ [][NextLive]_vars /\ Fairness

\* C15: every admitted record eventually reaches a terminal status.
C15_EventualSettlement ==
    (Len(transactions) >= 1) ~> (\A i \in Indices : IsTerminal(transactions[i].status))

(***************************************************************************)
(* Two clients, each submitting its own transfer, and one reconciliation   *)
(* callback at a time: the callback's list can hold two records.           *)
(***************************************************************************)
NextTwo ==
    \/ relayTransactionCall("c1", T1, BlockhashLastValid)
    \/ relayTransactionCall("c2", T2, BlockhashLastValid)
    \/ \E c \in Callers : relayTransactionResume(c)
    \/ start
    \/ processTransactions(1)
    \/ \E cycle \in BagToSet(cycles) : Loop(cycle)
    \/ Ledger

SpecTwo == Init /\ [][NextTwo]_vars

\* The callback is on the first of at least two records of its list.
OthersLeft(cycle) == Len(cycle.txs) >= 2

\* C16: a callback that resumes from a ledger call that threw goes on with
\* the rest of its list, and the record it was on stays non-terminal, so that
\* the next callback takes it up again.
C16_ErrorIsolation ==
    [][\A cycle \in BagToSet(cycles) :
          (Acted(cycle) /\ cycle.resp = "error")
              => /\ cycles' = Continue(cycle, NextRecord(transactions', cycle))
                 /\ ~IsTerminal(getTransaction(transactions', Head(cycle.txs)).status)]_vars

\* A callback in state `cycle` appears: the timer fired, or a callback went on.
Started(cycle) == CopiesIn(cycle, cycles') > CopiesIn(cycle, cycles)

\* C17: a callback starts with the records that are not FINALIZED or FAILED,
\* each once; a step of it changes no record but the one it is on, and a step
\* that writes a status goes on to the records after it, so that every record
\* of the list is gone through once and written at most once.
C17_OneStepPerRecordPerCycle ==
    [][/\ \A cycle \in BagToSet(cycles) :
             Acted(cycle)
                 => /\ \A i \in Indices :
                          transactions[i].signature # Head(cycle.txs)
                              => transactions'[i] = transactions[i]
                    /\ \A next \in BagToSet(cycles') :
                          Started(next)
                              => /\ next.txs \in {cycle.txs, Tail(cycle.txs)}
                                 /\ transactions' # transactions
                                       => next.txs = Tail(cycle.txs)
       /\ BagCardinality(cycles') > BagCardinality(cycles)
             => \A next \in BagToSet(cycles') :
                   Started(next)
                       => /\ next.pc = "getSignatureStatuses"
                          /\ Len(next.txs) = Cardinality(
                                {i \in Indices :
                                    transactions[i].status \notin {FINALIZED, FAILED}})
                          /\ \A i \in Indices :
                                transactions[i].status \notin {FINALIZED, FAILED}
                                    <=> \E k \in 1..Len(next.txs) :
                                           next.txs[k] = transactions[i].signature]_vars

\* C17 witness: of two records the first is FINALIZED, and a callback that
\* has the second one alone on its list has written SUBMITTED for it.
C17_Witness ==
    /\ Len(transactions) = 2
    /\ transactions[1].status = FINALIZED
    /\ transactions[2].status = SUBMITTED
    /\ \E cycle \in BagToSet(cycles) :
          cycle.txs = <<transactions[2].signature>> /\ cycle.pc = "sendRawTransaction"

(***************************************************************************)
(* Starting and stopping the loop around one admitted transfer, with one   *)
(* callback at a time; every ledger call returns and a callback whose call *)
(* has returned is resumed.                                                *)
(***************************************************************************)
NextStop ==
    \/ relayTransactionCall("c1", T1, BlockhashLastValid)
    \/ relayTransactionResume("c1")
    \/ start
    \/ startWhileRunning
    \/ stop
    \/ processTransactions(1)
    \/ \E cycle \in BagToSet(cycles) : Loop(cycle)
    \/ Ledger

FairnessStop ==
    /\ WF_vars(\E cycle \in BagToSet(cycles) : LedgerRespond(cycle))
    /\ WF_vars(Resume)

SpecStop == Init /\ [][NextStop]_vars /\ FairnessStop

NextGate ==
    \/ \E count \in Counts, feePayer \in FeePayers, ataMint \in Mints, mint \in Mints,
          sender \in Senders, senderSig \in SenderSigs :
          relayTransactionCall("c1",
              ShapedTx(count, feePayer, ataMint, mint, sender, senderSig),
              BlockhashLastValid)
    \/ relayTransactionResume("c1")

SpecGate == Init /\ [][NextGate]_vars

\* C19: a call for a transaction whose number of instructions is not two
\* returns the rejection "Expected 2 instructions", whatever else the
\* transaction holds, and every stored transaction has two instructions.
C19_InstructionCount ==
    /\ \A c \in Callers :
          (/\ Returned(c)
           /\ calls[c][1].transaction.decodable
           /\ Len(calls[c][1].transaction.instructions) # 2)
              => calls[c][1].result = Result(FALSE, NoSig, "Expected 2 instructions")
    /\ \A i \in Indices :
          Len(transactions[i].serializedTransaction.instructions) = 2

\* C19 witness: the client's transaction with a third instruction added has
\* been turned away, after the client's transaction itself was admitted.
C19_Witness ==
    /\ Returned("c1")
    /\ calls["c1"][1].transaction
          = ShapedTx(3, RelayerKey, USDC_MINT, USDC_MINT, "A", "signed")
    /\ ~calls["c1"][1].result.success
    /\ Len(transactions) = 1
    /\ transactions[1].signature = ClientShaped.signatures[2].signature

\* C20: a call for a transaction of two instructions whose transfer, or whose
\* account creation, names a mint other than USDC_MINT returns a rejection,
\* and both instructions of every stored transaction name USDC_MINT.
C20_AssetPinning ==
    /\ \A c \in Callers :
          (/\ Returned(c)
           /\ calls[c][1].transaction.decodable
           /\ Len(calls[c][1].transaction.instructions) = 2
           /\ \/ calls[c][1].transaction.instructions[1].keys[4] # USDC_MINT
              \/ calls[c][1].transaction.instructions[2].keys[2] # USDC_MINT)
              => ~calls[c][1].result.success
    /\ \A i \in Indices :
          /\ transactions[i].serializedTransaction.instructions[1].keys[4] = USDC_MINT
          /\ transactions[i].serializedTransaction.instructions[2].keys[2] = USDC_MINT

\* C20 witness: the client's transaction with another mint in the transfer
\* has been turned away for the mint, after the client's transaction itself
\* was admitted.
C20_Witness ==
    /\ Returned("c1")
    /\ calls["c1"][1].transaction
          = ShapedTx(2, RelayerKey, USDC_MINT, "OTHER", "A", "signed")
    /\ calls["c1"][1].result = Result(FALSE, NoSig, "Transfer must be USDC token")
    /\ Len(transactions) = 1
    /\ transactions[1].serializedTransaction.msg = ClientShaped.msg

(***************************************************************************)
(* The gate and the parties of a transfer: a caller hands in candidates    *)
(* that differ from the client's transfer in their accounts, identities    *)
(* and third party, and candidates that differ in their signatures, in a   *)
(* third signer and in the amount.                                         *)
(***************************************************************************)
NextParty ==
    \/ \E recipient \in Recipients, sourceOwner \in SourceOwners,
          destOwner \in DestOwners, targetOwner \in TargetOwners,
          sender \in Senders, extra \in Extras :
          relayTransactionCall("c1",
              PartyTx(recipient, sourceOwner, destOwner, targetOwner, sender,
                      "signed", "absent", extra, 10),
              BlockhashLastValid)
    \/ \E senderSig \in PartySenderSigs, relayerSig \in RelayerSigs,
          extra \in Extras \ {"writable"}, amount \in Amounts :
          relayTransactionCall("c1",
              PartyTx("B", "A", "B", "B", "A", senderSig, relayerSig, extra, amount),
              BlockhashLastValid)
    \/ relayTransactionResume("c1")

SpecParty == Init /\ [][NextParty]_vars

\* The instructions of a stored transaction.
StoredIx(i, k) == transactions[i].serializedTransaction.instructions[k]

\* C21: in every stored transaction the transfer's source is the holding
\* account derived for the transfer's authority, its destination is the
\* holding account derived for the wallet the account creation names, and
\* the account creation targets that same account; the record's sender and
\* recipient are that authority and that wallet.  A call for a candidate
\* that differs in one of the three accounts returns a rejection.
C21_CanonicalAccounts ==
    /\ \A i \in Indices :
          /\ StoredIx(i, 2).keys[1]
                = getAssociatedTokenAddressSync(USDC_MINT, transactions[i].sender)
          /\ StoredIx(i, 2).keys[3]
                = getAssociatedTokenAddressSync(USDC_MINT, transactions[i].recipient)
          /\ StoredIx(i, 1).keys[2] = StoredIx(i, 2).keys[3]
          /\ transactions[i].sender = StoredIx(i, 2).keys[4]
          /\ transactions[i].recipient = StoredIx(i, 1).keys[3]
    /\ \A c \in Callers :
          Returned(c)
              => LET ix == calls[c][1].transaction.instructions IN
                 (\/ ix[2].keys[1] # getAssociatedTokenAddressSync(USDC_MINT, ix[2].keys[4])
                  \/ ix[2].keys[3] # getAssociatedTokenAddressSync(USDC_MINT, ix[1].keys[3])
                  \/ ix[1].keys[2] # ix[2].keys[3])
                     => ~calls[c][1].result.success

\* C21 witness: a transfer whose account creation targets another wallet's
\* holding account has been turned away for it, after the client's transfer
\* was admitted.
C21_Witness ==
    /\ Returned("c1")
    /\ calls["c1"][1].transaction
          = PartyTx("B", "A", "B", "X", "A", "signed", "absent", "none", 10)
    /\ calls["c1"][1].result
          = Result(FALSE, NoSig, "ATA creation must target recipient's USDC ATA")
    /\ Len(transactions) = 1
    /\ transactions[1].sender = "A"
    /\ transactions[1].recipient = "B"

\* The identities of a candidate: the transfer's authority and the wallet
\* the account creation names.
SenderOf(transaction) == transaction.instructions[2].keys[4]
RecipientOf(transaction) == transaction.instructions[1].keys[3]

\* The accounts of a candidate are the derived ones of its identities.
AccountsDerived(transaction) ==
    LET ix == transaction.instructions IN
    /\ ix[2].keys[1] = getAssociatedTokenAddressSync(USDC_MINT, SenderOf(transaction))
    /\ ix[2].keys[3] = getAssociatedTokenAddressSync(USDC_MINT, RecipientOf(transaction))
    /\ ix[1].keys[2] = ix[2].keys[3]

\* C22: the sender and the recipient of every stored record are registered
\* users that pass isCompliant.  A call for a candidate whose sender or
\* recipient is not registered returns a rejection and nothing of it is
\* stored; the reason names the sender when the sender is not registered, the
\* recipient when the sender is registered and the recipient is not, and a
\* compliance reason when the party named is registered and not compliant.
C22_IdentityGate ==
    /\ \A i \in Indices :
          /\ transactions[i].sender \in RegisteredUsers
          /\ transactions[i].recipient \in RegisteredUsers
          /\ isCompliant(transactions[i].sender)
          /\ isCompliant(transactions[i].recipient)
    /\ \A c \in Callers :
          Returned(c)
              => LET tx == calls[c][1].transaction
                     error == calls[c][1].result.error
                     sender == SenderOf(tx)
                     recipient == RecipientOf(tx)
                 IN  /\ (sender \notin RegisteredUsers \/ recipient \notin RegisteredUsers)
                            => /\ ~calls[c][1].result.success
                               /\ \A i \in Indices : MsgOf(transactions[i]) # tx.msg
                     /\ (AccountsDerived(tx) /\ sender \notin RegisteredUsers)
                            => error = "Sender is not a registered user"
                     /\ (/\ AccountsDerived(tx)
                         /\ sender \in RegisteredUsers
                         /\ recipient \notin RegisteredUsers)
                            => error = "Recipient is not a registered user"
                     /\ error = "Sender is not a registered user"
                            => sender \notin RegisteredUsers
                     /\ error = "Recipient is not a registered user"
                            => recipient \notin RegisteredUsers
                     /\ error = "Sender is not compliant"
                            => sender \in RegisteredUsers /\ ~isCompliant(sender)
                     /\ error = "Recipient is not compliant"
                            => recipient \in RegisteredUsers /\ ~isCompliant(recipient)

\* C22 witness: a transfer from the registered A to the unregistered X has
\* been turned away for the recipient, after the client's transfer was
\* admitted.
C22_Witness ==
    /\ Returned("c1")
    /\ calls["c1"][1].transaction
          = PartyTx("X", "A", "X", "X", "A", "signed", "absent", "none", 10)
    /\ calls["c1"][1].result
          = Result(FALSE, NoSig, "Recipient is not a registered user")
    /\ Len(transactions) = 1
    /\ MsgOf(transactions[1]) = ClientPartyMsg

\* C23: a call that returns success was made for a transaction that carried,
\* on arrival, the sender's signature of that transaction and no signature
\* of the relayer; a candidate without a valid sender signature, or with the
\* relayer's signature, is rejected.
C23_SignatureGate ==
    \A c \in Callers :
        (Returned(c) /\ calls[c][1].result.success)
            => LET tx == calls[c][1].transaction IN
               /\ FindSignature(tx.signatures, SenderOf(tx)) = Sign(SenderOf(tx), tx.msg)
               /\ FindSignature(tx.signatures, RelayerKey) = NoSig

\* The keys with an entry in the signatures of a transaction.
SignersOf(transaction) ==
    {transaction.signatures[k].publicKey : k \in 1..Len(transaction.signatures)}

\* The accounts that an instruction of the transaction marks writable.
WritableOf(transaction) ==
    UNION {transaction.instructions[k].writable :
               k \in 1..Len(transaction.instructions)}

\* The parties a transfer is expected to name: the relayer and the sender
\* sign; the relayer (who pays), the sender and the two holding accounts the
\* transfer moves the asset between are written to.
ExpectedSigners(transaction) == {RelayerKey, SenderOf(transaction)}
ExpectedWritable(transaction) ==
    {<<"wallet", RelayerKey>>, <<"wallet", SenderOf(transaction)>>,
     getAssociatedTokenAddressSync(USDC_MINT, SenderOf(transaction)),
     getAssociatedTokenAddressSync(USDC_MINT, RecipientOf(transaction))}

OnlyExpectedParties(transaction) ==
    /\ SignersOf(transaction) \subseteq ExpectedSigners(transaction)
    /\ WritableOf(transaction) \subseteq ExpectedWritable(transaction)

\* C24: a call for a transaction with a signer entry or a writable account
\* outside the expected set returns a rejection, and no stored transaction
\* has such an entry.
C24_ExpectedPartySet ==
    /\ \A c \in Callers :
          (Returned(c) /\ ~OnlyExpectedParties(calls[c][1].transaction))
              => ~calls[c][1].result.success
    /\ \A i \in Indices : OnlyExpectedParties(transactions[i].serializedTransaction)

\* The admission check that a rejection reason belongs to.
ReasonClass(error) ==
    CASE error = "Expected 2 instructions" -> "count"
      [] error = "Fee payer must be the relayer" -> "feePayer"
      [] error = "Unexpected signer" -> "parties"
      [] error \in {"First instruction must be from Associated Token Program",
                    "First instruction must be create idempotent ATA",
                    "Invalid create ATA instruction accounts",
                    "ATA must be for USDC token",
                    "ATA creation must target recipient's USDC ATA"} -> "creation"
      [] error \in {"Second instruction must be from Token Program",
                    "Second instruction must be TransferChecked",
                    "Invalid TransferChecked instruction accounts",
                    "Transfer must be USDC token",
                    "Source ATA does not match sender's USDC ATA",
                    "Destination ATA does not match recipient's USDC ATA"} -> "transfer"
      [] error \in {"Sender is not a registered user",
                    "Recipient is not a registered user",
                    "Sender is not compliant",
                    "Recipient is not compliant"} -> "identity"
      [] error \in {"Sender signature is missing",
                    "Relayer signature should not be present yet",
                    "Signature verification failed"} -> "signature"
      [] OTHER -> "none"

\* The earliest check a transaction violates in the order: instruction count,
\* fee payer, signer and writable set; account creation and its target;
\* transfer; identities; signatures.  (A decoded transaction always carries a
\* recent blockhash.)
FirstViolation(transaction) ==
    LET ix == transaction.instructions IN
    IF Len(ix) # 2 THEN "count"
    ELSE IF transaction.feePayer # RelayerKey THEN "feePayer"
    ELSE IF ~OnlyExpectedParties(transaction) THEN "parties"
    ELSE IF \/ ~validateCreateAtaInstruction(ix[1]).valid
            \/ ix[1].keys[2]
                  # getAssociatedTokenAddressSync(USDC_MINT, RecipientOf(transaction))
    THEN "creation"
    ELSE IF ~validateTransferInstruction(ix[2], RecipientOf(transaction)).valid
    THEN "transfer"
    ELSE IF \/ SenderOf(transaction) \notin RegisteredUsers
            \/ RecipientOf(transaction) \notin RegisteredUsers
            \/ ~isCompliant(SenderOf(transaction))
            \/ ~isCompliant(RecipientOf(transaction))
    THEN "identity"
    ELSE IF \/ FindSignature(transaction.signatures, SenderOf(transaction))
                 # Sign(SenderOf(transaction), transaction.msg)
            \/ FindSignature(transaction.signatures, RelayerKey) # NoSig
    THEN "signature"
    ELSE "none"

\* C25: a call that returns a rejection names the earliest check that the
\* transaction violates in that order; stated for the transactions whose
\* writable accounts are the expected ones.
C25_FailFastOrder ==
    \A c \in Callers :
        (/\ Returned(c)
         /\ ~calls[c][1].result.success
         /\ WritableOf(calls[c][1].transaction)
                \subseteq ExpectedWritable(calls[c][1].transaction))
            => ReasonClass(calls[c][1].result.error)
                  = FirstViolation(calls[c][1].transaction)

(***************************************************************************)
(* Status queries: a client asks for the status of its transfer, or of an  *)
(* id that is not stored, at any moment of admission and reconciliation.   *)
(***************************************************************************)
QueriedIds == {T1.signatures[2].signature, T2.signatures[2].signature}

NextQuery ==
    \/ relayTransactionCall("c1", T1, BlockhashLastValid)
    \/ relayTransactionResume("c1")
    \/ \E transactionId \in QueriedIds : getTransactionStatusCall(transactionId)
    \/ start
    \/ processTransactions(1)
    \/ \E cycle \in BagToSet(cycles) : Loop(cycle)
    \/ Ledger

SpecQuery == Init /\ [][NextQuery]_vars

\* C26: a status query leaves the store as it is and answers the status the
\* record under the id has at that moment, or null when no record has the id;
\* the store changes only in a step of relayTransaction that appends a record
\* under an id not stored before, and in a step of a reconciliation callback
\* that changes the status of records and nothing else.
C26_StatusQueryReadOnly ==
    [][/\ statusResult' # statusResult
             => /\ transactions' = transactions
                /\ LET transactionId == statusResult'[1]
                       answer == statusResult'[2]
                       stored == {i \in Indices : transactions[i].signature = transactionId}
                   IN  /\ stored = {} => answer.status = "null"
                       /\ \A i \in stored : answer.status = transactions[i].status
       /\ transactions' # transactions
             => \/ /\ calls' # calls
                   /\ Len(transactions') = Len(transactions) + 1
                   /\ \A i \in Indices :
                         /\ transactions'[i] = transactions[i]
                         /\ transactions[i].signature
                               # transactions'[Len(transactions')].signature
                \/ /\ \E cycle \in BagToSet(cycles) : Acted(cycle)
                   /\ Len(transactions') = Len(transactions)
                   /\ \A i \in Indices :
                         transactions'[i]
                            = [transactions[i] EXCEPT !.status = transactions'[i].status]]_vars

\* C26 witness: the last query was answered CONFIRMED for the stored transfer
\* and the loop has set the record to FINALIZED since.
C26_Witness ==
    /\ statusResult = <<T1.signatures[2].signature, [status |-> CONFIRMED, error |-> ""]>>
    /\ Len(transactions) = 1
    /\ transactions[1].status = FINALIZED

\* C27: every step keeps the records that are stored, in their places, and
\* changes nothing of a record but its status (signature, transaction,
\* sender, recipient, amount and lastValidBlockHeight stay; the timestamps
\* are not part of the model); updateTransactionStatus for an id that has no
\* record leaves the store as it is.
C27_RecordFrame ==
    [][/\ Len(transactions') >= Len(transactions)
       /\ \A i \in Indices :
             transactions'[i]
                = [transactions[i] EXCEPT !.status = transactions'[i].status]
       /\ \A transactionId \in QueriedIds, status \in TransactionStatus :
             ~HasTransaction(transactions, transactionId)
                 => updateTransactionStatus(transactions, transactionId, status)
                       = transactions]_vars

\* C27 witness: of two records the first has been set to FAILED and the
\* second to CONFIRMED.
C27_Witness ==
    /\ Len(transactions) = 2
    /\ transactions[1].status = FAILED
    /\ transactions[2].status = CONFIRMED

\* C28: a record becomes SUBMITTED only in a step that finds it CREATED, and
\* a callback that resumes from a broadcast that went through for a record
\* that is SUBMITTED, PROCESSED or CONFIRMED leaves every record as it is.
C28_SubmittedOnlyFromCreated ==
    [][/\ \A i \in Indices :
             (transactions[i].status # SUBMITTED /\ transactions'[i].status = SUBMITTED)
                 => transactions[i].status = CREATED
       /\ \A cycle \in BagToSet(cycles) :
             (/\ Acted(cycle)
              /\ cycle.pc = "sendRawTransaction"
              /\ cycle.resp = "ok"
              /\ Record(Head(cycle.txs)).status \in {SUBMITTED, PROCESSED, CONFIRMED})
                 => transactions' = transactions]_vars

\* C28 witness: the broadcast of a callback went through, and before the
\* callback resumes the record has been set to CONFIRMED by another one.
C28_Witness ==
    \E cycle \in BagToSet(cycles) :
        /\ cycle.pc = "sendRawTransaction"
        /\ cycle.resp = "ok"
        /\ Record(Head(cycle.txs)).status = CONFIRMED

C30_NoBroadcastAfterTerminal ==
    [][\A cycle \in BagToSet(cycles) :
          (/\ Acted(cycle)
           /\ \E next \in BagToSet(cycles') :
                 /\ Started(next)
                 /\ next.pc = "sendRawTransaction"
                 /\ next.txs = cycle.txs)
              => ~IsTerminal(Record(Head(cycle.txs)).status)]_vars

(***************************************************************************)
(* The timer of the reconciliation loop.                                   *)
(***************************************************************************)
\* C31: whatever start and stop calls were made, at most one interval timer
\* is active, the running flag is set exactly when a timer is active (and the
\* timer's handle is held exactly then); no step taken while the loop is
\* running adds a timer, and a step that leaves the loop stopped leaves the
\* timer and its handle as they were.
C31_TimerStateMachine ==
    /\ [](/\ timers \in {0, 1}
          /\ running <=> timers = 1
          /\ intervalId <=> running)
    /\ [][/\ running => timers' <= timers
          /\ (~running /\ ~running') => UNCHANGED <<intervalId, timers>>]_vars

\* C31 witness: the loop is running on its one timer and the timer has
\* fired: a callback in flight is past its first ledger call.
C31_Witness ==
    /\ running
    /\ intervalId
    /\ timers = 1
    /\ \E cycle \in BagToSet(cycles) : cycle.pc = "getTransaction"

(***************************************************************************)
(* The client: one transfer, then its polling of the relayer while the     *)
(* loop reconciles the record, with one callback at a time.  A timeout     *)
(* that is set fires.                                                      *)
(***************************************************************************)
NextPoll ==
    \/ \E transaction \in {T1, ToUnregistered} : transfer("c1", transaction)
    \/ relayTransactionResume("c1")
    \/ pollTransactionStatus("c1")
    \/ poll
    \/ start
    \/ stop
    \/ processTransactions(1)
    \/ \E cycle \in BagToSet(cycles) : Loop(cycle)
    \/ Ledger

FairnessPoll == WF_vars(poll)

SpecPoll == Init /\ [][NextPoll]_vars /\ FairnessPoll

\* The loop is polling: it has been started and its next timeout is set.
Polling == IF polling = <<>> THEN FALSE ELSE polling[1].outcome = "again"

\* C32: the polling loop exists only for a transfer the relayer answered
\* with success, and asks under the id of that answer; it makes at most
\* maxAttempts (60) status queries; the query that is answered CONFIRMED or
\* FINALIZED ends it as a success, FAILED as a failure, not-found as not
\* found; it goes on to another query only when the answer was CREATED,
\* SUBMITTED or PROCESSED and fewer than 60 queries were made; once ended it
\* asks no more; and every loop that was started ends.
C32_PollingTerminates ==
    /\ [](polling # <<>> =>
            /\ polling[1].attempts <= maxAttempts
            /\ calls["c1"] # NoCall
            /\ calls["c1"][1].result.success
            /\ calls["c1"][1].result.transactionId = polling[1].transactionId)
    /\ [][/\ (polling = <<>> /\ polling' # <<>>) =>
                polling'[1].attempts = 0 /\ polling'[1].outcome = "again"
          /\ (polling # <<>> /\ polling' # polling) =>
                /\ polling[1].outcome = "again"
                /\ polling'[1].transactionId = polling[1].transactionId
                /\ polling'[1].attempts = polling[1].attempts + 1
                /\ statusResult' =
                      <<polling[1].transactionId,
                        getTransactionStatus(transactions, polling[1].transactionId)>>
                /\ LET status == statusResult'[2].status
                       outcome == polling'[1].outcome
                   IN  /\ status \in {CONFIRMED, FINALIZED} <=> outcome = "succeeded"
                       /\ status = FAILED <=> outcome = "failed"
                       /\ status = "null" <=> outcome = "not found"
                       /\ outcome = "again" =>
                             /\ status \in {CREATED, SUBMITTED, PROCESSED}
                             /\ polling'[1].attempts < maxAttempts
                       /\ outcome = "stopped" =>
                             /\ status \in {CREATED, SUBMITTED, PROCESSED}
                             /\ polling'[1].attempts = maxAttempts]_vars
    /\ Polling ~> (polling # <<>> /\ ~Polling)

\* C32 witness: the loop has ended at its 60th query, which was answered
\* SUBMITTED for the stored transfer.
C32_Witness ==
    /\ polling # <<>>
    /\ polling[1].attempts = maxAttempts
    /\ polling[1].outcome = "stopped"
    /\ statusResult = <<polling[1].transactionId, [status |-> SUBMITTED, error |-> ""]>>

====
